---------------------------- MODULE Spec2Model ----------------------------
(***************************************************************************)
(* Model of decthings_model/run/run.py: the subprocess side of the         *)
(* Decthings model runtime.  The host sends control frames; every control  *)
(* frame is run by processMessage as its own asyncio task.  The tasks      *)
(* share two module-level dicts, instantiatedModels and trainingSessions.  *)
(* asyncio is cooperative: a task runs without interruption from one       *)
(* await to the next, so every action below is one such uninterrupted run. *)
(*                                                                         *)
(* A task's local variables exist while the task does: when it ends they   *)
(* are reset.  What outlives a call is kept per call: the `stored` dict    *)
(* and modelFuture of a callInstantiateModel, the TrainTracker of a        *)
(* callTrain.  What a step showed to the outside (the handler's return     *)
(* value, the outcome of a tracker call, the frame handed to               *)
(* sendMessageToParent) is kept in `last` until the next such step.        *)
(***************************************************************************)
EXTENDS Integers, Sequences, FiniteSets, TLC

(* Bounds of the model. *)
MaxCalls == 3
MaxTrackerCalls == 1
MaxCallbacks == 2
MaxFrames == 3
MaxRequests == 2
MaxMessages == 4
FrameLen == 2
HighWater == 2
MaxSegments == 3
MaxSegLen == 3
MaxOutputs == 2
MaxBlobs == 2

Calls == 1..MaxCalls
NoEntry == 0
NoId == "-"
InstantiatedModelIds == {"m1"}
TrainingSessionIds == {"t1"}

(* The method table, run.py lines 280-288.  callCancelTrain is defined at  *)
(* lines 195-200 but is not a key of the table.                            *)
rpc ==
    {"initialize", "callCreateModelState", "callInstantiateModel",
     "callDisposeInstantiatedModel", "callTrain", "callEvaluate",
     "callGetModelState"}

(* Methods the host sends that the model draws its control frames from. *)
HostMethods ==
    {"callInstantiateModel", "callDisposeInstantiatedModel", "callTrain",
     "callEvaluate", "callGetModelState", "callCancelTrain", "noSuchMethod"}

(* Whether params carries a correlation id (processMessage line 339).  The *)
(* host awaits the result of the calls that produce one; the notifications *)
(* (dispose, cancel) come with or without an id.                           *)
HasId(method) ==
    IF method \in {"callDisposeInstantiatedModel", "callCancelTrain"}
    THEN BOOLEAN
    ELSE {TRUE}

VARIABLES
    instantiatedModels, \* id -> the call whose `stored` dict is registered, or NoEntry
    trainingSessions,   \* id -> the callTrain call whose tracker is registered, or NoEntry
    pc,                 \* per call: position of its processMessage task
    call,               \* per call in flight: the decoded control frame {method, params}
    awaited,            \* per call in flight: the instantiate call whose modelFuture it awaits
    model,              \* per call in flight: local `model`, the instantiate call it came from
    user,               \* per call: the user collaborator operation it invoked
    disposed,           \* per instantiate call: closure variable `disposed`
    modelFuture,        \* per instantiate call: "nofuture" | "pending" | "None" | "model"
    stored,             \* per instantiate call: the dict {model, dispose}
    disposeCalls,       \* per instantiate call: invocations of the user model's dispose
    disposeRequested,   \* per instantiate call: handle state when its entry was disposed
    tracker_id,         \* per train call: TrainTracker.id
    tracker_on_cancel,  \* per train call: TrainTracker._on_cancel
    tracker_complete,   \* per train call: TrainTracker._complete
    tracker_cancelled,  \* per train call: TrainTracker.cancelled
    cancelFired,        \* per train call: the on_cancel callbacks invoked, in order
    trackerCalls,       \* number of progress()/metrics() calls made by user code
    complete,           \* per call: the flag complete["complete"] its loaders share
    last,               \* the latest handler return or tracker call, and the frame it sent
    stream,             \* inner_main: the frames the host has written to the socket, in order
    decoded,            \* inner_main: how many frames of the stream the reader has decoded
    reader,             \* inner_main: "running" | "failed" (an exception left the loop)
    task,               \* per frame: the processMessage task created for it
    provided,           \* the request ids handed to onDataProvided, in order
    replied,            \* the frames whose task has replied, in order
    waiting,            \* pending-request table: request id -> the task that waits for it
    delivered,          \* per request id: how often its data reached its waiter
    requests,           \* number of request ids issued so far
    connection,         \* the socket: "open" | "eof" (the host closed) | "lost" (an error)
    wpc,                \* per outbound message: position of its _sendMessageToParent task
    sock_lock,          \* the message whose task holds sock_lock, or NoHolder
    lock_waiters,       \* the tasks waiting for sock_lock, in order
    buffer,             \* sock: bytes written and not yet sent on the socket
    wire,               \* the bytes sent on the socket, in order
    toSend,             \* frame codec: the segment list to encode
    finalBuffer,        \* frame codec: the encoded control frame
    received,           \* frame codec: what the reader decodes from finalBuffer
    codec,              \* frame codec: "input" | "encoded" | "decoded"
    awaitedres,         \* callEvaluate: what the model's evaluate returned
    response            \* processMessage: `_response`, what callEvaluate returned

readerVars ==
    <<stream, decoded, reader, task, provided, replied, waiting, delivered, requests>>
writerVars == <<wpc, sock_lock, lock_waiters, buffer, wire>>
codecVars == <<toSend, finalBuffer, received, codec, awaitedres, response>>
transportVars == <<readerVars, connection, writerVars, codecVars>>

vars ==
    <<instantiatedModels, trainingSessions, pc, call, awaited, model, user,
      disposed, modelFuture, stored, disposeCalls, disposeRequested,
      tracker_id, tracker_on_cancel, tracker_complete, tracker_cancelled,
      cancelFired, trackerCalls, complete, last, transportVars>>

handlerVars ==
    <<instantiatedModels, trainingSessions, pc, call, awaited, model, user,
      disposed, modelFuture, stored, disposeCalls, disposeRequested,
      tracker_id, tracker_on_cancel, tracker_complete, tracker_cancelled,
      cancelFired, trackerCalls, complete, last>>

registryVars == <<instantiatedModels, disposeRequested>>
handleVars == <<disposed, modelFuture, stored, disposeCalls>>
trackerVars ==
    <<tracker_id, tracker_on_cancel, tracker_complete, tracker_cancelled, cancelFired>>

NoCall == [method |-> "none", instantiatedModelId |-> NoId,
           trainingSessionId |-> NoId, hasId |-> FALSE]
NoFrame == [frame |-> "none", name |-> "none", call |-> NoEntry]
Nothing == [kind |-> "none", call |-> NoEntry, sent |-> NoFrame]

Frames == 1..MaxFrames
RequestIds == 1..MaxRequests
NoTask == 0
Messages == 1..MaxMessages
NoHolder == 0
Other == [type |-> "other", value |-> <<>>]
NoResult == [wrapped |-> FALSE, res |-> [type |-> "none", value |-> <<>>]]
NoResponse == [result |-> [error |-> "noresponse", outputs |-> <<>>], alsoSend |-> <<>>]

(* The program after import of the module, before any frame. *)
InitProgram ==
    /\ instantiatedModels = [i \in InstantiatedModelIds |-> NoEntry]
    /\ trainingSessions = [s \in TrainingSessionIds |-> NoEntry]
    /\ pc = [c \in Calls |-> "unused"]
    /\ call = [c \in Calls |-> NoCall]
    /\ awaited = [c \in Calls |-> NoEntry]
    /\ model = [c \in Calls |-> NoEntry]
    /\ user = [c \in Calls |-> "notcalled"]
    /\ disposed = [c \in Calls |-> FALSE]
    /\ modelFuture = [c \in Calls |-> "nofuture"]
    /\ stored = [c \in Calls |-> [model |-> "none", dispose |-> "none"]]
    /\ disposeCalls = [c \in Calls |-> 0]
    /\ disposeRequested = [c \in Calls |-> "no"]
    /\ tracker_id = [c \in Calls |-> NoId]
    /\ tracker_on_cancel = [c \in Calls |-> <<>>]
    /\ tracker_complete = [c \in Calls |-> FALSE]
    /\ tracker_cancelled = [c \in Calls |-> FALSE]
    /\ cancelFired = [c \in Calls |-> <<>>]
    /\ trackerCalls = 0
    /\ complete = [c \in Calls |-> "none"]
    /\ last = Nothing
    /\ stream = <<>>
    /\ decoded = 0
    /\ reader = "running"
    /\ task = [k \in Frames |-> "none"]
    /\ provided = <<>>
    /\ replied = <<>>
    /\ waiting = [r \in RequestIds |-> NoTask]
    /\ delivered = [r \in RequestIds |-> 0]
    /\ requests = 0
    /\ connection = "open"
    /\ wpc = [m \in Messages |-> "none"]
    /\ sock_lock = NoHolder
    /\ lock_waiters = <<>>
    /\ buffer = <<>>
    /\ wire = <<>>
    /\ finalBuffer = <<>>
    /\ received = [status |-> "none", segments |-> <<>>, rest |-> <<>>]
    /\ codec = "input"
    /\ response = NoResponse

Init ==
    /\ InitProgram
    /\ toSend = <<>>
    /\ awaitedres = NoResult

-----------------------------------------------------------------------------
(* processMessage: dispatch and reply. *)

(* inner_main creates one task per control frame, and tasks start in the   *)
(* order they were created: call c starts once call c-1 has started.       *)
Arrives(c) ==
    /\ pc[c] = "unused"
    /\ IF c = 1 THEN TRUE ELSE pc[c - 1] # "unused"

(* rpc[parsed["method"]] finds the handler. *)
Dispatched(c, method) ==
    /\ Arrives(c)
    /\ method \in rpc

(* The task of call c suspends at an await, keeping its frame. *)
Suspend(c, frame, at) ==
    /\ call' = [call EXCEPT ![c] = frame]
    /\ pc' = [pc EXCEPT ![c] = at]
    /\ UNCHANGED <<last, transportVars>>

(* processMessage lines 339-360: the reply frame {id, result} handed to    *)
(* sendMessageToParent; none when params carries no id.                    *)
Reply(c, hasId, res) ==
    IF hasId
    THEN [frame |-> "reply", name |-> res, call |-> c]
    ELSE NoFrame

(* The task of call c ends: its locals go, `last` says what it was, what   *)
(* its handler returned (res), whether it had awaited a modelFuture, what  *)
(* became of the user operation (usr) and which frame it sent (message).   *)
Ends(c, frame, how, res, usr, message) ==
    /\ pc' = [pc EXCEPT ![c] = how]
    /\ call' = [call EXCEPT ![c] = NoCall]
    /\ awaited' = [awaited EXCEPT ![c] = NoEntry]
    /\ model' = [model EXCEPT ![c] = NoEntry]
    /\ last' = [kind |-> "return", call |-> c, method |-> frame.method,
                instantiatedModelId |-> frame.instantiatedModelId,
                trainingSessionId |-> frame.trainingSessionId,
                hasId |-> frame.hasId, result |-> res, awaited |-> awaited[c],
                user |-> usr, sent |-> message]
    /\ UNCHANGED transportVars

(* A handler that returned a dict: the task replies and ends. *)
Return(c, frame, res, usr) ==
    Ends(c, frame, "done", res, usr, Reply(c, frame.hasId, res))

(* A handler that raised: the exception leaves processMessage, the task    *)
(* ends with it and nothing is sent.                                       *)
Raise(c, frame, usr) ==
    Ends(c, frame, "crashed", "none", usr, NoFrame)

(* A handler that returned None (a plain function without return value):   *)
(* without an id the task ends at line 340, with one _response["result"]   *)
(* raises TypeError at line 342.                                           *)
ReturnNone(c, frame) ==
    Ends(c, frame, IF frame.hasId THEN "crashed" ELSE "done", "None", "notcalled", NoFrame)

(* The method is no key of rpc: KeyError at line 331. *)
processMessage_KeyError(c, method, sid, hasId) ==
    /\ Arrives(c)
    /\ method \notin rpc
    /\ Raise(c, [method |-> method, instantiatedModelId |-> NoId,
                 trainingSessionId |-> sid, hasId |-> hasId], "notcalled")
    /\ UNCHANGED <<registryVars, trainingSessions, user, handleVars, trackerVars,
                   trackerCalls, complete>>

(* The first segment is no JSON: json.loads raises at line 329, before any *)
(* field of the frame is known.                                            *)
processMessage_JSONDecodeError(c) ==
    /\ Arrives(c)
    /\ Raise(c, [method |-> "none", instantiatedModelId |-> NoId,
                 trainingSessionId |-> NoId, hasId |-> FALSE], "notcalled")
    /\ UNCHANGED <<registryVars, trainingSessions, user, handleVars, trackerVars,
                   trackerCalls, complete>>

-----------------------------------------------------------------------------
(* The completion flag shared by a call's data loaders, state loaders and  *)
(* state provider.                                                         *)

(* Lines 78, 117, 173, 212, 261: complete = { "complete": False } *)
CompleteCreated(c) == [complete EXCEPT ![c] = "False"]

(* Mutation of CompleteAfterUser: the except path leaves the flag. *)
CompleteAfterUser_NotOnRaise(c, how) ==
    IF how = "raised" THEN complete ELSE [complete EXCEPT ![c] = "True"]

(* Lines 93/96, 130/132, 185/188, 225/245, 273/275: complete["complete"] = *)
(* True after the user operation, in the try block and in the except       *)
(* block.                                                                  *)
CompleteAfterUser(c, how) == [complete EXCEPT ![c] = "True"]

(* callCreateModelState lines 77-88: the loaders and the provider are      *)
(* created and the user's createModelState is called.                      *)
callCreateModelState(c, hasId) ==
    /\ Dispatched(c, "callCreateModelState")
    /\ complete' = CompleteCreated(c)
    /\ user' = [user EXCEPT ![c] = "running"]
    /\ Suspend(c, [method |-> "callCreateModelState", instantiatedModelId |-> NoId,
                   trainingSessionId |-> NoId, hasId |-> hasId], "awaitUser")
    /\ UNCHANGED <<registryVars, trainingSessions, awaited, model, handleVars,
                   trackerVars, trackerCalls>>

(* callCreateModelState lines 90-97: the user's createModelState returned  *)
(* or raised.                                                              *)
createModelState_ends(c, how) ==
    /\ pc[c] = "awaitUser"
    /\ call[c].method = "callCreateModelState"
    /\ complete' = CompleteAfterUser(c, how)
    /\ user' = [user EXCEPT ![c] = "notcalled"]
    /\ Return(c, call[c], IF how = "returned" THEN "ok" ELSE "exception", how)
    /\ UNCHANGED <<registryVars, trainingSessions, handleVars, trackerVars, trackerCalls>>

-----------------------------------------------------------------------------
(* Instantiated-model registry. *)

(* Mutation of InRegistry: the membership test is skipped. *)
InRegistry_Always(id) == TRUE

(* args["instantiatedModelId"] in instantiatedModels *)
InRegistry(id) == instantiatedModels[id] # NoEntry

(* callInstantiateModel lines 99-124: register the handle, call the user's *)
(* instantiateModel and suspend on it.                                     *)
callInstantiateModel(c, id, hasId) ==
    /\ Dispatched(c, "callInstantiateModel")
    /\ disposed' = [disposed EXCEPT ![c] = FALSE]
    /\ modelFuture' = [modelFuture EXCEPT ![c] = "pending"]
    /\ stored' = [stored EXCEPT ![c] = [model |-> "future", dispose |-> "dispose"]]
    /\ instantiatedModels' = [instantiatedModels EXCEPT ![id] = c]
    /\ complete' = CompleteCreated(c)
    /\ user' = [user EXCEPT ![c] = "running"]
    /\ Suspend(c, [method |-> "callInstantiateModel", instantiatedModelId |-> id,
                   trainingSessionId |-> NoId, hasId |-> hasId], "awaitUser")
    /\ UNCHANGED <<trainingSessions, awaited, model, disposeCalls, disposeRequested,
                   trackerVars, trackerCalls>>

(* callInstantiateModel lines 126-130, 138-150: the user's instantiateModel *)
(* returned.  dispose2 calls the user model's dispose.                      *)
instantiateModel_returns(c) ==
    /\ pc[c] = "awaitUser"
    /\ call[c].method = "callInstantiateModel"
    /\ user' = [user EXCEPT ![c] = "returned"]
    /\ complete' = CompleteAfterUser(c, "returned")
    /\ IF disposed[c]
       THEN /\ stored' = [stored EXCEPT ![c].model = "model"]
            /\ disposeCalls' = [disposeCalls EXCEPT ![c] = @ + 1]
            /\ UNCHANGED modelFuture
       ELSE /\ stored' = [stored EXCEPT ![c] = [model |-> "model", dispose |-> "dispose2"]]
            /\ modelFuture' = [modelFuture EXCEPT ![c] = "model"]
            /\ UNCHANGED disposeCalls
    /\ Return(c, call[c], "ok", "returned")
    /\ UNCHANGED <<registryVars, trainingSessions, disposed, trackerVars, trackerCalls>>

(* callInstantiateModel lines 131-136: the user's instantiateModel raised. *)
(* del instantiatedModels[id] raises KeyError when id is not a key, and    *)
(* the KeyError leaves the handler before set_result and before return.    *)
instantiateModel_raises(c) ==
    LET id == call[c].instantiatedModelId IN
    /\ pc[c] = "awaitUser"
    /\ call[c].method = "callInstantiateModel"
    /\ user' = [user EXCEPT ![c] = "raised"]
    /\ complete' = CompleteAfterUser(c, "raised")
    /\ IF disposed[c]
       THEN /\ Return(c, call[c], "exception", "raised")
            /\ UNCHANGED <<instantiatedModels, modelFuture>>
       ELSE IF InRegistry(id)
            THEN /\ instantiatedModels' = [instantiatedModels EXCEPT ![id] = NoEntry]
                 /\ modelFuture' = [modelFuture EXCEPT ![c] = "None"]
                 /\ Return(c, call[c], "exception", "raised")
            ELSE /\ Raise(c, call[c], "raised")
                 /\ UNCHANGED <<instantiatedModels, modelFuture>>
    /\ UNCHANGED <<disposeRequested, trainingSessions, disposed, stored, disposeCalls,
                   trackerVars, trackerCalls>>

(* Mutation of RegistryAfterDispose: the entry is not deleted. *)
RegistryAfterDispose_Keeps(id) == instantiatedModels

(* callDisposeInstantiatedModel line 155: del instantiatedModels[id] *)
RegistryAfterDispose(id) == [instantiatedModels EXCEPT ![id] = NoEntry]

(* callDisposeInstantiatedModel lines 152-156.  Line 156 is the expression *)
(* instantiatedModel["dispose"]: it reads the stored callable and does not *)
(* call it, so neither the closure dispose (lines 104-108) nor dispose2    *)
(* (lines 140-144) runs: disposed, modelFuture and the user model are left *)
(* as they are.  disposeRequested records the handle's state at this       *)
(* moment.  The function returns None.                                     *)
callDisposeInstantiatedModel(c, id, hasId) ==
    /\ Dispatched(c, "callDisposeInstantiatedModel")
    /\ IF InRegistry(id)
       THEN LET e == instantiatedModels[id] IN
            /\ instantiatedModels' = RegistryAfterDispose(id)
            /\ disposeRequested' = [disposeRequested EXCEPT ![e] =
                   IF stored[e].model = "future" THEN "instantiating" ELSE "ready"]
       ELSE UNCHANGED <<instantiatedModels, disposeRequested>>
    /\ ReturnNone(c, [method |-> "callDisposeInstantiatedModel",
                      instantiatedModelId |-> id, trainingSessionId |-> NoId,
                      hasId |-> hasId])
    /\ UNCHANGED <<trainingSessions, user, handleVars, trackerVars, trackerCalls, complete>>

-----------------------------------------------------------------------------
(* train / evaluate / getModelState: lookup of the instantiated model. *)

(* Lines 162-171, 203-211, 251-259: the lookup shared by the three         *)
(* handlers.  An id that is no key returns instantiated_model_not_found; a *)
(* stored model that is still the future suspends the call on it (an await *)
(* of a future that is already done is modelled as resuming in the next    *)
(* step); otherwise the user operation is invoked.  Reading a missing key  *)
(* (line 165/205/253) would raise KeyError.                                *)
Lookup(c, frame) ==
    LET id == frame.instantiatedModelId IN
    IF ~InRegistry(id)
    THEN /\ Return(c, frame, "instantiated_model_not_found", "notcalled")
         /\ UNCHANGED <<user, complete>>
    ELSE LET e == instantiatedModels[id] IN
         IF e = NoEntry
         THEN /\ Raise(c, frame, "notcalled")
              /\ UNCHANGED <<user, complete>>
         ELSE IF stored[e].model = "future"
              THEN /\ awaited' = [awaited EXCEPT ![c] = e]
                   /\ Suspend(c, frame, "awaitModel")
                   /\ UNCHANGED <<user, model, complete>>
              ELSE /\ model' = [model EXCEPT ![c] = e]
                   /\ complete' = CompleteCreated(c)
                   /\ user' = [user EXCEPT ![c] = "running"]
                   /\ Suspend(c, frame, "awaitUser")
                   /\ UNCHANGED awaited

(* Lines 167-169, 207-209, 255-257: the awaited modelFuture has a result.  *)
(* None means not found; a model is used to invoke the user operation.     *)
modelFuture_resolved(c) ==
    /\ pc[c] = "awaitModel"
    /\ modelFuture[awaited[c]] # "pending"
    /\ IF modelFuture[awaited[c]] = "None"
       THEN /\ Return(c, call[c], "instantiated_model_not_found", "notcalled")
            /\ UNCHANGED <<user, complete>>
       ELSE /\ model' = [model EXCEPT ![c] = awaited[c]]
            /\ complete' = CompleteCreated(c)
            /\ user' = [user EXCEPT ![c] = "running"]
            /\ Suspend(c, call[c], "awaitUser")
            /\ UNCHANGED awaited
    /\ UNCHANGED <<registryVars, trainingSessions, handleVars, trackerVars, trackerCalls>>

(* callEvaluate lines 202-213 *)
callEvaluate(c, id, hasId) ==
    /\ Dispatched(c, "callEvaluate")
    /\ Lookup(c, [method |-> "callEvaluate", instantiatedModelId |-> id,
                  trainingSessionId |-> NoId, hasId |-> hasId])
    /\ UNCHANGED <<registryVars, trainingSessions, handleVars, trackerVars, trackerCalls>>

(* callEvaluate lines 214-248: the user's evaluate returned (a return      *)
(* value of the wrong shape raises inside the try block) or raised.        *)
evaluate_ends(c, how) ==
    /\ pc[c] = "awaitUser"
    /\ call[c].method = "callEvaluate"
    /\ complete' = CompleteAfterUser(c, how)
    /\ user' = [user EXCEPT ![c] = "notcalled"]
    /\ Return(c, call[c], IF how = "returned" THEN "ok" ELSE "exception",
              IF how = "raised" THEN "raised" ELSE "returned")
    /\ UNCHANGED <<registryVars, trainingSessions, handleVars, trackerVars, trackerCalls>>

(* callGetModelState lines 250-262 *)
callGetModelState(c, id, hasId) ==
    /\ Dispatched(c, "callGetModelState")
    /\ Lookup(c, [method |-> "callGetModelState", instantiatedModelId |-> id,
                  trainingSessionId |-> NoId, hasId |-> hasId])
    /\ UNCHANGED <<registryVars, trainingSessions, handleVars, trackerVars, trackerCalls>>

(* callGetModelState lines 264-278 *)
getModelState_ends(c, how) ==
    /\ pc[c] = "awaitUser"
    /\ call[c].method = "callGetModelState"
    /\ complete' = CompleteAfterUser(c, how)
    /\ user' = [user EXCEPT ![c] = "notcalled"]
    /\ Return(c, call[c], IF how = "returned" THEN "ok" ELSE "exception", how)
    /\ UNCHANGED <<registryVars, trainingSessions, handleVars, trackerVars, trackerCalls>>

-----------------------------------------------------------------------------
(* Training sessions and the TrainTracker. *)

(* callTrain lines 158-179: the tracker is created and registered before   *)
(* the lookup of the instantiated model.                                   *)
callTrain(c, id, sid, hasId) ==
    /\ Dispatched(c, "callTrain")
    /\ tracker_id' = [tracker_id EXCEPT ![c] = sid]
    /\ tracker_on_cancel' = [tracker_on_cancel EXCEPT ![c] = <<>>]
    /\ tracker_complete' = [tracker_complete EXCEPT ![c] = FALSE]
    /\ trainingSessions' = [trainingSessions EXCEPT ![sid] = c]
    /\ Lookup(c, [method |-> "callTrain", instantiatedModelId |-> id,
                  trainingSessionId |-> sid, hasId |-> hasId])
    /\ UNCHANGED <<registryVars, handleVars, tracker_cancelled, cancelFired, trackerCalls>>

(* Mutation of CompleteAfterTrain: the except path leaves _complete. *)
CompleteAfterTrain_NotOnRaise(c, how) ==
    IF how = "raised" THEN tracker_complete ELSE [tracker_complete EXCEPT ![c] = TRUE]

(* callTrain lines 184-185, 187-188: both paths mark the tracker complete. *)
CompleteAfterTrain(c, how) == [tracker_complete EXCEPT ![c] = TRUE]

(* callTrain lines 181-193: the user's train returned (line 192) or raised *)
(* (lines 186-190).  del trainingSessions[id] raises KeyError when the key *)
(* is gone, on either path, and then no result is returned.                *)
train_ends(c, how) ==
    LET sid == call[c].trainingSessionId IN
    /\ pc[c] = "awaitUser"
    /\ call[c].method = "callTrain"
    /\ user' = [user EXCEPT ![c] = how]
    /\ tracker_complete' = CompleteAfterTrain(c, how)
    /\ complete' = CompleteAfterUser(c, how)
    /\ IF trainingSessions[sid] # NoEntry
       THEN /\ trainingSessions' = [trainingSessions EXCEPT ![sid] = NoEntry]
            /\ Return(c, call[c], IF how = "returned" THEN "ok" ELSE "exception", how)
       ELSE /\ Raise(c, call[c], how)
            /\ UNCHANGED trainingSessions
    /\ UNCHANGED <<registryVars, handleVars, tracker_id, tracker_on_cancel,
                   tracker_cancelled, cancelFired, trackerCalls>>

(* The user's train holds the tracker from the moment it is invoked, and   *)
(* can keep the reference after train has ended.                           *)
HoldsTracker(c) ==
    /\ tracker_id[c] # NoId
    /\ user[c] # "notcalled"

(* Mutation of TrackerRejects: a cancelled session is rejected too. *)
TrackerRejects_Cancelled(c) == tracker_complete[c] \/ tracker_cancelled[c]

(* TrainTracker.progress line 26 and TrainTracker.metrics line 33 *)
TrackerRejects(c) == tracker_complete[c]

(* TrainTracker.progress lines 25-30: "raised" or "sent" (the event is     *)
(* handed to sendEventToParent)                                            *)
ProgressOutcome(c, arg) ==
    IF TrackerRejects(c) THEN "raised"
    ELSE IF arg = "invalid" THEN "raised"
    ELSE "sent"

(* TrainTracker.metrics lines 32-50: "raised", "returned" (the empty list, *)
(* line 38) or "sent" (the event)                                          *)
MetricsOutcome(c, arg) ==
    IF TrackerRejects(c) THEN "raised"
    ELSE IF arg = "invalid" THEN "raised"
    ELSE IF arg = "empty" THEN "returned"
    ELSE "sent"

(* One call of tracker.progress / tracker.metrics by user code. *)
TrackerCall(c, op, arg, outcome, event) ==
    /\ HoldsTracker(c)
    /\ trackerCalls < MaxTrackerCalls
    /\ trackerCalls' = trackerCalls + 1
    /\ last' = [kind |-> "tracker", call |-> c, op |-> op, arg |-> arg,
                outcome |-> outcome,
                sent |-> IF outcome = "sent"
                         THEN [frame |-> "event", name |-> event, call |-> c]
                         ELSE NoFrame]
    /\ UNCHANGED <<registryVars, trainingSessions, pc, call, awaited, model, user,
                   handleVars, trackerVars, complete, transportVars>>

progress(c, arg) ==
    TrackerCall(c, "progress", arg, ProgressOutcome(c, arg), "trainingProgress")

metrics(c, arg) ==
    TrackerCall(c, "metrics", arg, MetricsOutcome(c, arg), "trainingMetrics")

(* The number of callbacks registered with the trackers of calls 1..c. *)
RECURSIVE Registered(_)
Registered(c) ==
    IF c = 0 THEN 0 ELSE Len(tracker_on_cancel[c]) + Registered(c - 1)

(* TrainTracker.on_cancel lines 22-23, called by the user's train while   *)
(* it runs; the callback is named by its place in the list.                *)
on_cancel(c) ==
    /\ HoldsTracker(c)
    /\ user[c] = "running"
    /\ Registered(MaxCalls) < MaxCallbacks
    /\ tracker_on_cancel' = [tracker_on_cancel EXCEPT ![c] = Append(@, Len(@) + 1)]
    /\ UNCHANGED <<registryVars, trainingSessions, pc, call, awaited, model, user,
                   handleVars, tracker_id, tracker_complete,
                   tracker_cancelled, cancelFired, trackerCalls, complete, last,
                   transportVars>>

(* Mutation of callCancelTrain: the cancellation also completes the        *)
(* session, as if it ended the training.                                   *)
callCancelTrain_Completes(c, sid) ==
    /\ Arrives(c)
    /\ IF trainingSessions[sid] # NoEntry
       THEN LET t == trainingSessions[sid] IN
            /\ tracker_cancelled' = [tracker_cancelled EXCEPT ![t] = TRUE]
            /\ cancelFired' = [cancelFired EXCEPT ![t] = @ \o tracker_on_cancel[t]]
            /\ tracker_complete' = [tracker_complete EXCEPT ![t] = TRUE]
       ELSE UNCHANGED <<tracker_cancelled, cancelFired, tracker_complete>>
    /\ ReturnNone(c, [method |-> "callCancelTrain", instantiatedModelId |-> NoId,
                      trainingSessionId |-> sid, hasId |-> FALSE])
    /\ UNCHANGED <<registryVars, trainingSessions, user, handleVars, tracker_id,
                   tracker_on_cancel, trackerCalls, complete>>

(* callCancelTrain lines 195-200, called as a function of the module (no   *)
(* control frame reaches it, see rpc): sets tracker.cancelled and calls    *)
(* the registered callbacks in list order.  It returns None.               *)
callCancelTrain(c, sid) ==
    /\ Arrives(c)
    /\ IF trainingSessions[sid] # NoEntry
       THEN LET t == trainingSessions[sid] IN
            /\ tracker_cancelled' = [tracker_cancelled EXCEPT ![t] = TRUE]
            /\ cancelFired' = [cancelFired EXCEPT ![t] = @ \o tracker_on_cancel[t]]
       ELSE UNCHANGED <<tracker_cancelled, cancelFired>>
    /\ ReturnNone(c, [method |-> "callCancelTrain", instantiatedModelId |-> NoId,
                      trainingSessionId |-> sid, hasId |-> FALSE])
    /\ UNCHANGED <<registryVars, trainingSessions, user, handleVars, tracker_id,
                   tracker_on_cancel, tracker_complete, trackerCalls, complete>>

-----------------------------------------------------------------------------
(* The program as main() runs it: every step is a control frame reaching   *)
(* processMessage, a suspended handler resuming, or user code using its    *)
(* tracker.                                                                *)
Next ==
    \E c \in Calls :
        \/ \E id \in InstantiatedModelIds, hasId \in HasId("callInstantiateModel") :
               callInstantiateModel(c, id, hasId)
        \/ instantiateModel_returns(c)
        \/ instantiateModel_raises(c)
        \/ \E id \in InstantiatedModelIds, hasId \in HasId("callDisposeInstantiatedModel") :
               callDisposeInstantiatedModel(c, id, hasId)
        \/ \E id \in InstantiatedModelIds, sid \in TrainingSessionIds,
                 hasId \in HasId("callTrain") :
               callTrain(c, id, sid, hasId)
        \/ \E how \in {"returned", "raised"} : train_ends(c, how)
        \/ \E id \in InstantiatedModelIds, hasId \in HasId("callEvaluate") :
               callEvaluate(c, id, hasId)
        \/ \E how \in {"returned", "malformed", "raised"} : evaluate_ends(c, how)
        \/ \E id \in InstantiatedModelIds, hasId \in HasId("callGetModelState") :
               callGetModelState(c, id, hasId)
        \/ \E how \in {"returned", "raised"} : getModelState_ends(c, how)
        \/ modelFuture_resolved(c)
        \/ \E method \in HostMethods, sid \in TrainingSessionIds :
               \E hasId \in HasId(method) : processMessage_KeyError(c, method, sid, hasId)
        \/ processMessage_JSONDecodeError(c)
        \/ \E arg \in {"valid", "invalid"} : progress(c, arg)
        \/ \E arg \in {"valid", "empty", "invalid"} : metrics(c, arg)
        \/ on_cancel(c)

Spec == Init /\ [][Next]_vars

(* The same program with callCancelTrain also invoked as a function. *)
NextCancel ==
    \/ Next
    \/ \E c \in Calls, sid \in TrainingSessionIds : callCancelTrain(c, sid)

SpecCancel == Init /\ [][NextCancel]_vars

(* The handlers that create data loaders, state loaders or a state         *)
(* provider, with the dispose that runs between them.                      *)
NextComplete ==
    \E c \in Calls :
        \/ \E hasId \in HasId("callCreateModelState") : callCreateModelState(c, hasId)
        \/ \E how \in {"returned", "raised"} : createModelState_ends(c, how)
        \/ \E id \in InstantiatedModelIds, hasId \in HasId("callInstantiateModel") :
               callInstantiateModel(c, id, hasId)
        \/ instantiateModel_returns(c)
        \/ instantiateModel_raises(c)
        \/ \E id \in InstantiatedModelIds, hasId \in HasId("callDisposeInstantiatedModel") :
               callDisposeInstantiatedModel(c, id, hasId)
        \/ \E id \in InstantiatedModelIds, sid \in TrainingSessionIds,
                 hasId \in HasId("callTrain") :
               callTrain(c, id, sid, hasId)
        \/ \E how \in {"returned", "raised"} : train_ends(c, how)
        \/ \E id \in InstantiatedModelIds, hasId \in HasId("callEvaluate") :
               callEvaluate(c, id, hasId)
        \/ \E how \in {"returned", "malformed", "raised"} : evaluate_ends(c, how)
        \/ \E id \in InstantiatedModelIds, hasId \in HasId("callGetModelState") :
               callGetModelState(c, id, hasId)
        \/ \E how \in {"returned", "raised"} : getModelState_ends(c, how)
        \/ modelFuture_resolved(c)

SpecComplete == Init /\ [][NextComplete]_vars

-----------------------------------------------------------------------------
(* inner_main: the reader loop.  The handlers are seen from the reader's   *)
(* side: a task per control frame, which runs user code, may wait for data *)
(* it asked the host for, and replies when its handler returns.            *)

(* The two frame shapes of the inbound stream, told apart by the first     *)
(* byte (line 371); a data-chunk frame carries a request id (line 379).    *)
ControlFrame == [first_byte |-> 0, request_id |-> 0]
DataFrame(r) == [first_byte |-> 1, request_id |-> r]
HostFrames == {ControlFrame} \cup {DataFrame(r) : r \in RequestIds}

(* The host writes one more frame to the socket. *)
hostWrites(frame) ==
    /\ connection = "open"
    /\ Len(stream) < MaxFrames
    /\ stream' = Append(stream, frame)
    /\ UNCHANGED <<decoded, reader, task, provided, replied, waiting, delivered,
                   requests, connection, writerVars, codecVars, handlerVars>>

(* The host closes the socket: the reader gets what was written, then EOF. *)
hostCloses ==
    /\ connection = "open"
    /\ connection' = "eof"
    /\ UNCHANGED <<readerVars, writerVars, codecVars, handlerVars>>

(* Pending-request table, resolve: the slot is looked up and removed and   *)
(* the data delivered to the waiter, which resumes; an id without a slot   *)
(* (never registered, or resolved before) is reported and nothing happens. *)
onDataProvided(request_id) ==
    IF waiting[request_id] # NoTask
    THEN /\ task' = [task EXCEPT ![waiting[request_id]] = "awaitUser"]
         /\ waiting' = [waiting EXCEPT ![request_id] = NoTask]
         /\ delivered' = [delivered EXCEPT ![request_id] = @ + 1]
    ELSE UNCHANGED <<task, waiting, delivered>>

(* Mutation of request_id_of: the id is taken from the wrong place of the  *)
(* frame and comes out as another id.                                      *)
request_id_of_Shifted(frame) ==
    IF frame.request_id = MaxRequests THEN 1 ELSE frame.request_id + 1

(* inner_main line 379: the request id of a data-chunk frame *)
request_id_of(frame) == frame.request_id

(* Mutation of inner_main_reads: the reader awaits the handler of every    *)
(* control frame (await processMessage(...) in place of create_task), so   *)
(* it reads on only when no handler is unfinished.                         *)
inner_main_reads_AwaitsHandler ==
    /\ reader = "running"
    /\ connection # "lost"
    /\ decoded < Len(stream)
    /\ \A j \in Frames : task[j] \in {"none", "done"}
    /\ LET k == decoded + 1
           frame == stream[k] IN
       /\ decoded' = k
       /\ IF frame.first_byte = 0
          THEN /\ task' = [task EXCEPT ![k] = "created"]
               /\ UNCHANGED <<provided, waiting, delivered>>
          ELSE /\ provided' = Append(provided, request_id_of(frame))
               /\ onDataProvided(request_id_of(frame))
    /\ UNCHANGED <<stream, reader, replied, requests, connection, writerVars, codecVars, handlerVars>>

(* inner_main lines 369-386: one turn of the loop.  A control frame gets   *)
(* its own task (create_task, line 376), a data-chunk frame is handed to   *)
(* onDataProvided (line 386).  No await of the loop waits for a task.      *)
inner_main_reads ==
    /\ reader = "running"
    /\ connection # "lost"
    /\ decoded < Len(stream)
    /\ LET k == decoded + 1
           frame == stream[k] IN
       /\ decoded' = k
       /\ IF frame.first_byte = 0
          THEN /\ task' = [task EXCEPT ![k] = "created"]
               /\ UNCHANGED <<provided, waiting, delivered>>
          ELSE /\ provided' = Append(provided, request_id_of(frame))
               /\ onDataProvided(request_id_of(frame))
    /\ UNCHANGED <<stream, reader, replied, requests, connection, writerVars, codecVars, handlerVars>>

(* Mutation of ReaderAfterError: the loop catches the error and goes on. *)
ReaderAfterError_Continues == "running"

(* inner_main line 370: nothing catches what readexactly raises, so the    *)
(* exception leaves inner_main and run_until_complete (line 390).          *)
ReaderAfterError == "failed"

(* readexactly raises: the connection was lost, or the stream ended. *)
readexactly_raises ==
    /\ reader = "running"
    /\ \/ connection = "lost"
       \/ connection = "eof" /\ decoded = Len(stream)
    /\ reader' = ReaderAfterError
    /\ UNCHANGED <<stream, decoded, task, provided, replied, waiting, delivered,
                   requests, connection, writerVars, codecVars, handlerVars>>

(* processMessage lines 328-335: the task of frame k starts (tasks start   *)
(* in the order they were created), calls its handler, and the handler     *)
(* suspends in user code.                                                  *)
processMessage_starts(k) ==
    /\ reader = "running"
    /\ task[k] = "created"
    /\ \A j \in 1..(k - 1) : task[j] # "created"
    /\ task' = [task EXCEPT ![k] = "awaitUser"]
    /\ UNCHANGED <<stream, decoded, reader, provided, replied, waiting, delivered,
                   requests, connection, writerVars, codecVars, handlerVars>>

(* Data loader next() / state loader read(): user code asks for data that  *)
(* is not buffered.  A fresh request id is registered in the pending-      *)
(* request table and the task suspends until its data-chunk frame arrives. *)
loader_next(k) ==
    /\ reader = "running"
    /\ task[k] = "awaitUser"
    /\ requests < MaxRequests
    /\ requests' = requests + 1
    /\ waiting' = [waiting EXCEPT ![requests + 1] = k]
    /\ task' = [task EXCEPT ![k] = "awaitData"]
    /\ UNCHANGED <<stream, decoded, reader, provided, replied, delivered,
                   connection, writerVars, codecVars, handlerVars>>

(* processMessage lines 335-360: the handler returns and the task replies. *)
processMessage_replies(k) ==
    /\ reader = "running"
    /\ task[k] = "awaitUser"
    /\ task' = [task EXCEPT ![k] = "done"]
    /\ replied' = Append(replied, k)
    /\ UNCHANGED <<stream, decoded, reader, provided, waiting, delivered, requests,
                   connection, writerVars, codecVars, handlerVars>>

NextReader ==
    \/ \E frame \in HostFrames : hostWrites(frame)
    \/ hostCloses
    \/ inner_main_reads
    \/ readexactly_raises
    \/ \E k \in Frames :
           \/ processMessage_starts(k)
           \/ loader_next(k)
           \/ processMessage_replies(k)

SpecReader == Init /\ [][NextReader]_vars

-----------------------------------------------------------------------------
(* The outbound writer: sendMessageToParent and _sendMessageToParent.      *)
(* sock is an asyncio StreamWriter: write() is synchronous and appends the *)
(* whole message to the transport's buffer (sending at once what the       *)
(* socket takes when the buffer was empty); drain() suspends only while    *)
(* the buffer is above the high-water mark; a failed send closes the       *)
(* transport, which drops its buffer, makes every later drain() raise and  *)
(* sets the exception on the reader's stream.                              *)

(* The bytes of outbound frame m, each named by its frame and offset. *)
Frame(m) == [i \in 1..FrameLen |-> <<m, i>>]

(* The transport resumes a paused writer at a quarter of the high-water    *)
(* mark.                                                                   *)
LowWater == HighWater \div 4

(* Mutation of SockWrite: the message goes to the socket ahead of what is  *)
(* still buffered.                                                         *)
SockWrite_Prepends(buf, message) == message \o buf

(* _sendMessageToParent line 296: sock.write(message) *)
SockWrite(buf, message) == buf \o message

(* sendMessageToParent lines 299-301: a task is created for the message;   *)
(* messages are numbered in the order their sends are requested.           *)
sendMessageToParent(m) ==
    /\ reader = "running"
    /\ wpc[m] = "none"
    /\ \A j \in 1..(m - 1) : wpc[j] # "none"
    /\ wpc' = [wpc EXCEPT ![m] = "created"]
    /\ UNCHANGED <<sock_lock, lock_waiters, buffer, wire, connection, readerVars,
                   codecVars, handlerVars>>

(* _sendMessageToParent lines 296-297 with sock_lock held: write, then     *)
(* drain.  On a lost connection write() drops the message and drain()      *)
(* raises, which releases the lock.  Otherwise drain() returns at once and *)
(* the lock is released, unless the buffer is above the high-water mark:   *)
(* then the task keeps the lock and suspends in drain().                   *)
WriteAndDrain(m) ==
    IF connection = "lost"
    THEN /\ wpc' = [wpc EXCEPT ![m] = "failed"]
         /\ sock_lock' = NoHolder
         /\ UNCHANGED <<buffer, wire>>
    ELSE \E n \in 0..(IF buffer = <<>> THEN FrameLen ELSE 0) :
             LET out == SockWrite(buffer, Frame(m)) IN
             /\ wire' = wire \o SubSeq(out, 1, n)
             /\ buffer' = SubSeq(out, n + 1, Len(out))
             /\ IF Len(out) - n > HighWater
                THEN /\ wpc' = [wpc EXCEPT ![m] = "awaitDrain"]
                     /\ sock_lock' = m
                ELSE /\ wpc' = [wpc EXCEPT ![m] = "done"]
                     /\ sock_lock' = NoHolder

(* Mutation of sendTask_starts: a starting task takes a free lock even     *)
(* when earlier tasks are queued for it.                                   *)
sendTask_starts_Barges(m) ==
    /\ reader = "running"
    /\ wpc[m] = "created"
    /\ \A j \in 1..(m - 1) : wpc[j] # "created"
    /\ IF sock_lock = NoHolder
       THEN /\ WriteAndDrain(m)
            /\ UNCHANGED lock_waiters
       ELSE /\ wpc' = [wpc EXCEPT ![m] = "awaitLock"]
            /\ lock_waiters' = Append(lock_waiters, m)
            /\ UNCHANGED <<sock_lock, buffer, wire>>
    /\ UNCHANGED <<connection, readerVars, codecVars, handlerVars>>

(* _sendMessageToParent line 295: the task starts (tasks start in the      *)
(* order they were created) and enters `async with sock_lock`.  A free     *)
(* lock without waiters is taken at once; otherwise the task queues.       *)
sendTask_starts(m) ==
    /\ reader = "running"
    /\ wpc[m] = "created"
    /\ \A j \in 1..(m - 1) : wpc[j] # "created"
    /\ IF sock_lock = NoHolder /\ lock_waiters = <<>>
       THEN /\ WriteAndDrain(m)
            /\ UNCHANGED lock_waiters
       ELSE /\ wpc' = [wpc EXCEPT ![m] = "awaitLock"]
            /\ lock_waiters' = Append(lock_waiters, m)
            /\ UNCHANGED <<sock_lock, buffer, wire>>
    /\ UNCHANGED <<connection, readerVars, codecVars, handlerVars>>

(* asyncio.Lock: a released lock goes to the first waiter. *)
sendTask_gets_lock(m) ==
    /\ reader = "running"
    /\ wpc[m] = "awaitLock"
    /\ sock_lock = NoHolder
    /\ lock_waiters # <<>>
    /\ Head(lock_waiters) = m
    /\ lock_waiters' = Tail(lock_waiters)
    /\ WriteAndDrain(m)
    /\ UNCHANGED <<connection, readerVars, codecVars, handlerVars>>

(* _sendMessageToParent line 297: drain() returns once the buffer is down  *)
(* to the low-water mark; leaving `async with` releases the lock.          *)
drain_returns(m) ==
    /\ reader = "running"
    /\ wpc[m] = "awaitDrain"
    /\ connection # "lost"
    /\ Len(buffer) <= LowWater
    /\ wpc' = [wpc EXCEPT ![m] = "done"]
    /\ sock_lock' = NoHolder
    /\ UNCHANGED <<lock_waiters, buffer, wire, connection, readerVars, codecVars, handlerVars>>

(* _sendMessageToParent line 297: drain() raises on a lost connection; the *)
(* exception releases the lock and ends the task, and nobody awaits the    *)
(* task.                                                                   *)
drain_raises(m) ==
    /\ reader = "running"
    /\ wpc[m] = "awaitDrain"
    /\ connection = "lost"
    /\ wpc' = [wpc EXCEPT ![m] = "failed"]
    /\ sock_lock' = NoHolder
    /\ UNCHANGED <<lock_waiters, buffer, wire, connection, readerVars, codecVars, handlerVars>>

(* The socket takes the next n buffered bytes. *)
socket_sends(n) ==
    /\ reader = "running"
    /\ connection # "lost"
    /\ n <= Len(buffer)
    /\ wire' = wire \o SubSeq(buffer, 1, n)
    /\ buffer' = SubSeq(buffer, n + 1, Len(buffer))
    /\ UNCHANGED <<wpc, sock_lock, lock_waiters, connection, readerVars, codecVars, handlerVars>>

(* Sending buffered bytes fails: the transport closes with the error and   *)
(* drops its buffer.                                                       *)
socket_send_raises ==
    /\ reader = "running"
    /\ connection # "lost"
    /\ buffer # <<>>
    /\ connection' = "lost"
    /\ buffer' = <<>>
    /\ UNCHANGED <<wpc, sock_lock, lock_waiters, wire, readerVars, codecVars, handlerVars>>

NextWriter ==
    \/ \E m \in Messages :
           \/ sendMessageToParent(m)
           \/ sendTask_starts(m)
           \/ sendTask_gets_lock(m)
           \/ drain_returns(m)
           \/ drain_raises(m)
    \/ \E n \in 1..(MaxMessages * FrameLen) : socket_sends(n)
    \/ socket_send_raises
    \/ readexactly_raises

(* The event loop runs a task whose await has a result: the reader, woken  *)
(* by the error on its stream, does take its step.                         *)
SpecWriter == Init /\ [][NextWriter]_vars /\ WF_vars(readexactly_raises)

-----------------------------------------------------------------------------
(* The frame codec: how sendEventToParent and processMessage encode a      *)
(* control frame, and how inner_main decodes one.                          *)

CountBytes == 4
LengthBytes == 8
ReadLengthBytes == 8

ByteValues == {0, 97}

(* The byte strings of at most n bytes. *)
RECURSIVE ByteStrings(_)
ByteStrings(n) ==
    IF n = 0 THEN {<<>>}
    ELSE LET shorter == ByteStrings(n - 1) IN
         shorter \cup {Append(b, v) : b \in shorter, v \in ByteValues}

(* The segment lists of 1..n segments. *)
RECURSIVE SegmentLists(_)
SegmentLists(n) ==
    IF n = 0 THEN {}
    ELSE LET shorter == IF n = 1 THEN {<<>>} ELSE SegmentLists(n - 1) \cup {<<>>} IN
         {Append(l, seg) : l \in shorter, seg \in ByteStrings(MaxSegLen)}

(* int.to_bytes(width, 'big') *)
RECURSIVE to_bytes(_, _)
to_bytes(n, width) ==
    IF width = 0 THEN <<>> ELSE Append(to_bytes(n \div 256, width - 1), n % 256)

(* int.from_bytes(bytes, 'big'), as far as it matters to readexactly: the  *)
(* value itself up to cap, and cap for every larger value.                 *)
RECURSIVE from_bytes(_, _)
from_bytes(bytes, cap) ==
    IF bytes = <<>> THEN 0
    ELSE LET v == from_bytes(SubSeq(bytes, 1, Len(bytes) - 1), cap) * 256
                      + bytes[Len(bytes)] IN
         IF v > cap THEN cap ELSE v

(* The loop of lines 314-318 / 352-356: each segment as its length in 8    *)
(* bytes followed by its bytes.                                            *)
RECURSIVE EncodeSegments(_)
EncodeSegments(segs) ==
    IF segs = <<>> THEN <<>>
    ELSE to_bytes(Len(Head(segs)), LengthBytes) \o Head(segs) \o EncodeSegments(Tail(segs))

(* sendEventToParent lines 306-320, processMessage lines 344-358:          *)
(* [0][count - 1 in 4 bytes][length in 8 bytes, bytes]...[0]               *)
EncodeControlFrame(segs) ==
    <<0>> \o to_bytes(Len(segs) - 1, CountBytes) \o EncodeSegments(segs) \o <<0>>

(* inner_main lines 370-376: after a first byte 0 the next 8 bytes are     *)
(* read as the length of one segment, and that many bytes as the segment,  *)
(* which is handed to processMessage.  readexactly does not return when    *)
(* fewer bytes than asked for ever arrive.                                 *)
DecodeControlFrame(bytes) ==
    IF Len(bytes) < 1 + ReadLengthBytes
    THEN [status |-> "incomplete", segments |-> <<>>, rest |-> bytes]
    ELSE LET available == Len(bytes) - 1 - ReadLengthBytes
             segment_len == from_bytes(SubSeq(bytes, 2, 1 + ReadLengthBytes), available + 1)
         IN  IF segment_len > available
             THEN [status |-> "incomplete", segments |-> <<>>, rest |-> bytes]
             ELSE [status |-> "decoded",
                   segments |-> <<SubSeq(bytes, 2 + ReadLengthBytes,
                                         1 + ReadLengthBytes + segment_len)>>,
                   rest |-> SubSeq(bytes, 2 + ReadLengthBytes + segment_len, Len(bytes))]

(* Every segment list of the bounds is an input. *)
InitCodec ==
    /\ InitProgram
    /\ toSend \in SegmentLists(MaxSegments)
    /\ awaitedres = NoResult

(* The program encodes the segment list. *)
encodes ==
    /\ codec = "input"
    /\ finalBuffer' = EncodeControlFrame(toSend)
    /\ codec' = "encoded"
    /\ UNCHANGED <<toSend, received, awaitedres, response, readerVars, connection,
                   writerVars, handlerVars>>

(* The reader of the program decodes what was encoded. *)
decodes ==
    /\ codec = "encoded"
    /\ finalBuffer[1] = 0
    /\ received' = DecodeControlFrame(finalBuffer)
    /\ codec' = "decoded"
    /\ UNCHANGED <<toSend, finalBuffer, awaitedres, response, readerVars, connection,
                   writerVars, handlerVars>>

NextCodec == encodes \/ decodes

SpecCodec == InitCodec /\ [][NextCodec]_vars

-----------------------------------------------------------------------------
(* The reply of callEvaluate.  A Python value is a record of its type and  *)
(* its content; a DecthingsTensor is known by its serialization.           *)

(* The sequences over S of length at most n. *)
RECURSIVE SeqsUpTo(_, _)
SeqsUpTo(S, n) ==
    IF n = 0 THEN {<<>>}
    ELSE LET shorter == SeqsUpTo(S, n - 1) IN
         shorter \cup {Append(l, x) : l \in shorter, x \in S}

(* The blobs an output is made of. *)
Blobs == {<<0>>, <<97, 0>>}

(* What the user's evaluate puts into a "data" list: tensors when the      *)
(* model is run through _Model.evaluate, bytes when run.py calls the model *)
(* itself, or something of another type.                                   *)
Items(wrapped) ==
    {[type |-> IF wrapped THEN "tensor" ELSE "bytes", value |-> b] : b \in Blobs}
        \cup {Other}

(* The field "data" of an output: a list of items, or no list. *)
DataValues(wrapped) ==
    {[type |-> "list", value |-> d] : d \in SeqsUpTo(Items(wrapped), MaxBlobs)}
        \cup {Other}

(* An element of the returned list: a dict with a name that is a string    *)
(* ("a") or not ("bad") and a field "data", or no dict.                    *)
Elements(wrapped) ==
    {[type |-> "dict", name |-> n, data |-> d] :
         n \in {"a", "bad"}, d \in DataValues(wrapped)}
        \cup {[type |-> "other", name |-> "bad", data |-> Other]}

(* model.py map_fn2 lines 193-196: a tensor becomes its serialization. *)
map_fn2(value) == [type |-> "bytes", value |-> value.value]

(* model.py map_fn lines 186-200 *)
map_fn(output_param) ==
    [type |-> "dict", name |-> output_param.name,
     data |-> [type |-> "list",
               value |-> [j \in 1..Len(output_param.data.value) |->
                             map_fn2(output_param.data.value[j])]]]

(* model.py _Model.evaluate lines 183-202: the checks that raise           *)
(* ValueError, else the list of converted outputs.                         *)
Model_evaluate(res) ==
    IF \/ res.type # "list"
       \/ \E i \in 1..Len(res.value) :
              LET el == res.value[i] IN
              \/ el.type # "dict"
              \/ el.data.type # "list"
              \/ \E j \in 1..Len(el.data.value) : el.data.value[j].type # "tensor"
    THEN [raised |-> TRUE, value |-> Other]
    ELSE [raised |-> FALSE,
          value |-> [type |-> "list",
                     value |-> [i \in 1..Len(res.value) |-> map_fn(res.value[i])]]]

(* callEvaluate lines 215-223: the model's evaluate is called, through     *)
(* _Model.evaluate or as it is.                                            *)
Awaited(in) ==
    IF in.wrapped THEN Model_evaluate(in.res)
    ELSE [raised |-> FALSE, value |-> in.res]

(* callEvaluate lines 231-241: the checks on one element that raise. *)
ElementRaises(el) ==
    \/ el.type # "dict"
    \/ el.name = "bad"
    \/ el.data.type # "list"
    \/ \E j \in 1..Len(el.data.value) : el.data.value[j].type # "bytes"

(* callEvaluate line 242: [len(x) for x in el['data']] *)
ByteSizes(data) == [j \in 1..Len(data) |-> Len(data[j].value)]

(* callEvaluate line 242: the outputs of the result. *)
Outputs(els) ==
    [i \in 1..Len(els) |->
        [name |-> els[i].name, byteSizes |-> ByteSizes(els[i].data.value)]]

(* Mutation of AlsoSendExtend: the blobs of an output go in front of the   *)
(* blobs collected before.                                                 *)
AlsoSendExtend_Prepends(alsoSend, data) ==
    [j \in 1..Len(data) |-> data[j].value] \o alsoSend

(* callEvaluate line 243: alsoSend.extend(el['data']) *)
AlsoSendExtend(alsoSend, data) ==
    alsoSend \o [j \in 1..Len(data) |-> data[j].value]

(* callEvaluate lines 228, 230-243: alsoSend after the first n elements. *)
RECURSIVE AlsoSend(_, _)
AlsoSend(els, n) ==
    IF n = 0 THEN <<>>
    ELSE AlsoSendExtend(AlsoSend(els, n - 1), els[n].data.value)

(* b''.join(alsoSend) *)
RECURSIVE Join(_)
Join(blobs) ==
    IF blobs = <<>> THEN <<>> ELSE Head(blobs) \o Join(Tail(blobs))

(* callEvaluate lines 244-246: the except block returns the error alone;   *)
(* the dict has no key alsoSend, which processMessage line 342 takes as    *)
(* the empty list.                                                         *)
ErrorResponse == [result |-> [error |-> "exception", outputs |-> <<>>], alsoSend |-> <<>>]

(* callEvaluate lines 214-248 *)
callEvaluate_returns(in) ==
    LET a == Awaited(in) IN
    IF \/ a.raised
       \/ a.value.type # "list"
       \/ \E i \in 1..Len(a.value.value) : ElementRaises(a.value.value[i])
    THEN ErrorResponse
    ELSE LET els == a.value.value IN
         [result |-> [error |-> "none", outputs |-> Outputs(els)],
          alsoSend |-> <<Join(AlsoSend(els, Len(els)))>>]

(* The user's evaluate has returned a list of at most MaxOutputs elements, *)
(* or something that is no list.                                           *)
InitEvaluate ==
    /\ InitProgram
    /\ toSend = <<>>
    /\ \E w \in BOOLEAN :
           \/ awaitedres = [wrapped |-> w, res |-> Other]
           \/ \E n \in 0..MaxOutputs :
                  \E l \in [1..n -> Elements(w)] :
                      awaitedres = [wrapped |-> w, res |-> [type |-> "list", value |-> l]]

(* callEvaluate returns and processMessage line 342 puts the reply         *)
(* together: the JSON of {id, result}, then the segments of alsoSend.      *)
evaluate_replies ==
    /\ response = NoResponse
    /\ awaitedres # NoResult
    /\ response' = callEvaluate_returns(awaitedres)
    /\ toSend' = <<[json |-> response'.result]>> \o response'.alsoSend
    /\ UNCHANGED <<awaitedres, finalBuffer, received, codec, readerVars, connection,
                   writerVars, handlerVars>>

NextEvaluate == evaluate_replies

SpecEvaluate == InitEvaluate /\ [][NextEvaluate]_vars

-----------------------------------------------------------------------------
(* Properties. *)

Ended == {"done", "crashed"}
LookupMethods == {"callTrain", "callEvaluate", "callGetModelState"}
NotFound == "instantiated_model_not_found"

(* Call c starts in this step (its frame reaches processMessage). *)
Starts(c) == pc[c] = "unused" /\ pc'[c] # "unused"

(* The method and the instantiatedModelId of the call that starts. *)
StartedMethod(c) == IF pc'[c] \in Ended THEN last'.method ELSE call'[c].method
StartedModelId(c) ==
    IF pc'[c] \in Ended THEN last'.instantiatedModelId ELSE call'[c].instantiatedModelId

(* User code calls progress() or metrics() of the tracker of call c in     *)
(* this step.                                                              *)
CallsTracker(c) == trackerCalls' = trackerCalls + 1 /\ last'.call = c

(* C1: a handle disposed while it was instantiating and whose              *)
(* instantiation then succeeded has had the model's dispose invoked        *)
(* exactly once and has not become Ready.                                  *)
C1_DeferredDispose ==
    \A e \in Calls :
        (disposeRequested[e] = "instantiating" /\ user[e] = "returned")
            => (disposeCalls[e] = 1 /\ modelFuture[e] # "model")

(* C2: a handle disposed while Ready has had the model's dispose invoked   *)
(* exactly once, however often the id is disposed again.                   *)
C2_ExplicitDispose ==
    \A e \in Calls : disposeRequested[e] = "ready" => disposeCalls[e] = 1

(* C3: when callDisposeInstantiatedModel for an id returns the id is       *)
(* absent from the registry; an absent id becomes present again only by a  *)
(* new callInstantiateModel for it (never by a pending instantiation       *)
(* completing); and a train/evaluate/getModelState that starts while the   *)
(* id is absent returns instantiated_model_not_found.                      *)
C3_AbsentAfterDispose ==
    [][ /\ \A c \in Calls :
              (Starts(c) /\ StartedMethod(c) = "callDisposeInstantiatedModel")
                  => instantiatedModels'[StartedModelId(c)] = NoEntry
        /\ \A id \in InstantiatedModelIds :
              (instantiatedModels[id] = NoEntry /\ instantiatedModels'[id] # NoEntry)
                  => \E c \in Calls : /\ Starts(c)
                                      /\ StartedMethod(c) = "callInstantiateModel"
                                      /\ StartedModelId(c) = id
        /\ \A c \in Calls :
              (/\ Starts(c)
               /\ StartedMethod(c) \in LookupMethods
               /\ instantiatedModels[StartedModelId(c)] = NoEntry)
                  => (pc'[c] = "done" /\ last'.result = NotFound) ]_vars

(* C3 witness: a handle was disposed while instantiating, its              *)
(* instantiation then completed, the id is absent and an evaluate that     *)
(* started afterwards returned instantiated_model_not_found.               *)
C3_Witness ==
    /\ \E e \in Calls : disposeRequested[e] = "instantiating" /\ user[e] = "returned"
    /\ \A id \in InstantiatedModelIds : instantiatedModels[id] = NoEntry
    /\ last.kind = "return"
    /\ last.method = "callEvaluate"
    /\ last.result = NotFound

(* C4: a train/evaluate/getModelState whose id is not in the registry      *)
(* returns instantiated_model_not_found, replies with it, and invokes no   *)
(* user operation.                                                         *)
C4_UnknownIdNotFound ==
    [][ \A c \in Calls :
            (/\ Starts(c)
             /\ StartedMethod(c) \in LookupMethods
             /\ instantiatedModels[StartedModelId(c)] = NoEntry)
                => /\ pc'[c] = "done"
                   /\ last'.call = c
                   /\ last'.result = NotFound
                   /\ last'.sent = [frame |-> "reply", name |-> NotFound, call |-> c]
                   /\ last'.user = "notcalled"
                   /\ user' = user ]_vars

(* C4 witness: an evaluate found no entry, did not wait, and returned      *)
(* instantiated_model_not_found without a user operation.                  *)
C4_Witness ==
    /\ last.kind = "return"
    /\ last.method = "callEvaluate"
    /\ last.awaited = NoEntry
    /\ last.result = NotFound
    /\ last.user = "notcalled"
    /\ last.sent.name = NotFound

(* C5: a call that waited for a handle which was disposed while it was     *)
(* instantiating never invokes the user operation and returns              *)
(* instantiated_model_not_found.                                           *)
C5_WaiterOfDisposedFails ==
    /\ \A c \in Calls :
           (awaited[c] # NoEntry /\ disposeRequested[awaited[c]] = "instantiating")
               => user[c] = "notcalled"
    /\ (/\ last.kind = "return"
        /\ last.awaited # NoEntry
        /\ disposeRequested[last.awaited] = "instantiating")
           => (last.result = NotFound /\ last.user = "notcalled")

(* C6: when the user's instantiateModel raised, the handle is not Ready    *)
(* and not in the registry, its future tells the waiting calls "not        *)
(* found", and the instantiate call returned and replied with an error.    *)
C6_FailedInstantiation ==
    /\ \A e \in Calls :
           (modelFuture[e] # "nofuture" /\ user[e] = "raised")
               => /\ pc[e] = "done"
                  /\ modelFuture[e] = "None"
                  /\ \A id \in InstantiatedModelIds : instantiatedModels[id] # e
    /\ (last.kind = "return" /\ last.method = "callInstantiateModel" /\ last.user = "raised")
           => (last.result = "exception" /\ last.sent.name = "exception")

(* C7: the tracker of a train call is in trainingSessions exactly while    *)
(* the call is in flight.                                                  *)
C7_SessionWhileTrainRuns ==
    \A c \in Calls :
        tracker_id[c] # NoId
            => (trainingSessions[tracker_id[c]] = c <=> pc[c] \in {"awaitModel", "awaitUser"})

(* C8: once the user's train has returned or raised, every progress() and  *)
(* metrics() call on its tracker raises and hands no event to the socket.  *)
C8_CompletedTrackerRejects ==
    [][ \A c \in Calls :
            (CallsTracker(c) /\ user[c] \in {"returned", "raised"})
                => (last'.outcome = "raised" /\ last'.sent = NoFrame) ]_vars

(* C8 witness: a well-formed report on a completed session was rejected. *)
C8_Witness ==
    /\ last.kind = "tracker"
    /\ last.arg = "valid"
    /\ last.outcome = "raised"
    /\ last.sent = NoFrame
    /\ user[last.call] \in {"returned", "raised"}

(* C9 as claimed: progress() and metrics() raise whenever the session is   *)
(* completed or cancelled.                                                 *)
C9_NotActiveRejects ==
    [][ \A c \in Calls :
            (CallsTracker(c) /\ (tracker_complete[c] \/ tracker_cancelled[c]))
                => last'.outcome = "raised" ]_vars

(* C9 amended: progress() and metrics() raise whenever the session is      *)
(* completed; on a session that is not completed a well-formed report is   *)
(* sent as an event, whether or not the session was cancelled.             *)
C9_CompletedRejectsCancelledReports ==
    [][ \A c \in Calls :
            CallsTracker(c)
                => /\ tracker_complete[c] => last'.outcome = "raised"
                   /\ (~tracker_complete[c] /\ last'.arg = "valid")
                          => /\ last'.outcome = "sent"
                             /\ last'.sent.frame = "event"
                             /\ last'.sent.call = c ]_vars

(* C9 witness: a report on a cancelled, uncompleted session was sent. *)
C9_Witness ==
    /\ last.kind = "tracker"
    /\ last.outcome = "sent"
    /\ tracker_cancelled[last.call]
    /\ ~tracker_complete[last.call]

(* C10: when a callCancelTrain frame for the id of an active session       *)
(* arrives, the callbacks registered so far are invoked, each once, in     *)
(* registration order.                                                     *)
C10_CancelFiresCallbacks ==
    [][ \A c \in Calls :
            (/\ Starts(c)
             /\ StartedMethod(c) = "callCancelTrain"
             /\ trainingSessions[last'.trainingSessionId] # NoEntry
             /\ ~tracker_complete[trainingSessions[last'.trainingSessionId]])
                => LET t == trainingSessions[last'.trainingSessionId] IN
                   cancelFired'[t] = cancelFired[t] \o tracker_on_cancel[t] ]_vars

(* C11: a cancellation, whether it arrives as a callCancelTrain frame or   *)
(* callCancelTrain is invoked, changes no more than the cancelled flag and *)
(* the callbacks fired for the tracker registered under its id: the        *)
(* completed flags, the training-session map, the registry, the handles    *)
(* and every other call stay as they are; and a train call suspended in    *)
(* the user's train ends only by that train returning or raising.          *)
C11_CancellationAdvisory ==
    [][ /\ \A c \in Calls :
              (Starts(c) /\ StartedMethod(c) = "callCancelTrain")
                  => /\ tracker_complete' = tracker_complete
                     /\ trainingSessions' = trainingSessions
                     /\ instantiatedModels' = instantiatedModels
                     /\ UNCHANGED <<handleVars, user, awaited, model, tracker_id,
                                    tracker_on_cancel>>
                     /\ \A d \in Calls \ {c} : pc'[d] = pc[d] /\ call'[d] = call[d]
                     /\ \A d \in Calls :
                            (tracker_cancelled'[d] # tracker_cancelled[d]
                                \/ cancelFired'[d] # cancelFired[d])
                                => d = trainingSessions[last'.trainingSessionId]
        /\ \A c \in Calls :
              (call[c].method = "callTrain" /\ pc[c] = "awaitUser" /\ pc'[c] # "awaitUser")
                  => /\ last'.kind = "return"
                     /\ last'.call = c
                     /\ last'.user \in {"returned", "raised"} ]_vars

(* C11 witness: callCancelTrain has run for a session whose train call is  *)
(* suspended in the user's train: the flag is set, a callback has fired,   *)
(* the session is registered, not completed, and the call still suspended. *)
C11_Witness ==
    /\ last.kind = "return"
    /\ last.method = "callCancelTrain"
    /\ trainingSessions[last.trainingSessionId] # NoEntry
    /\ LET t == trainingSessions[last.trainingSessionId] IN
           /\ tracker_cancelled[t]
           /\ cancelFired[t] # <<>>
           /\ ~tracker_complete[t]
           /\ pc[t] = "awaitUser"
           /\ user[t] = "running"

(* C12: a control frame of a method of the method table whose handler has  *)
(* finished (returned, with or without a value) was answered by a reply    *)
(* frame for that call if params carries an id, and by no frame if not.    *)
C12_ReplyPerId ==
    (last.kind = "return" /\ last.method \in rpc /\ last.result # "none")
        => IF last.hasId
           THEN last.sent.frame = "reply" /\ last.sent.call = last.call
           ELSE last.sent = NoFrame

(* C14: the reader never waits for a handler.  Whatever the tasks are      *)
(* doing, a running reader with an undecoded frame on the stream can       *)
(* decode it; the frames decoded so far are a prefix of the stream; every  *)
(* decoded control frame, and no other frame, has its own task; and the    *)
(* data-chunk frames decoded so far were handed to onDataProvided, in      *)
(* stream order.                                                           *)
C14_ReaderNeverWaits ==
    /\ (reader = "running" /\ connection # "lost" /\ decoded < Len(stream))
           => ENABLED inner_main_reads
    /\ decoded <= Len(stream)
    /\ \A k \in Frames :
           IF k <= decoded /\ stream[k].first_byte = 0
           THEN task[k] # "none"
           ELSE task[k] = "none"
    /\ LET data == SelectSeq(SubSeq(stream, 1, decoded), LAMBDA f : f.first_byte # 0) IN
           provided = [i \in 1..Len(data) |-> data[i].request_id]

(* C14 witness: a later call has replied while an earlier one is still     *)
(* suspended, and a data-chunk frame that came after both control frames   *)
(* was handed to onDataProvided.                                           *)
C14_Witness ==
    \E k1, k2 \in Frames :
        /\ k1 < k2
        /\ task[k1] \in {"awaitUser", "awaitData"}
        /\ replied = <<k2>>
        /\ decoded > k2
        /\ provided # <<>>

(* C19: a data-chunk frame whose request id has a waiter delivers to that  *)
(* waiter, once, and removes the slot; a data-chunk frame whose id has no  *)
(* slot (resolved before, or never registered) changes nothing; in both    *)
(* cases the reader keeps running; data reaches a waiter in no other way,  *)
(* and no id is delivered twice.                                           *)
C19_PendingDelivery ==
    [][ /\ \A r \in RequestIds : delivered'[r] <= 1
        /\ (decoded' = decoded + 1 /\ stream[decoded'].first_byte # 0)
               => LET r == stream[decoded'].request_id IN
                  /\ reader' = "running"
                  /\ IF waiting[r] # NoTask
                     THEN /\ delivered' = [delivered EXCEPT ![r] = @ + 1]
                          /\ waiting' = [waiting EXCEPT ![r] = NoTask]
                          /\ task' = [task EXCEPT ![waiting[r]] = "awaitUser"]
                     ELSE UNCHANGED <<delivered, waiting, task>>
        /\ delivered' # delivered
               => (decoded' = decoded + 1 /\ stream[decoded'].first_byte # 0) ]_vars

(* C19 witness: the data of a request id reached its waiter, a second      *)
(* data-chunk frame with the same id was decoded afterwards, and the       *)
(* reader is still running, with the id delivered once.                    *)
C19_Witness ==
    /\ reader = "running"
    /\ \E r \in RequestIds :
           /\ delivered[r] = 1
           /\ Len(SelectSeq(provided, LAMBDA q : q = r)) = 2
           /\ provided[Len(provided)] = r

(* C13: a control frame that names no method of the method table, or that  *)
(* is no JSON, ends only its own call: the registry, the handles, the      *)
(* training sessions and the other calls are as before; and when the frame *)
(* carries an id an error result is sent back for it.                      *)
C13_BadFrameEndsItsCall ==
    [][ \A c \in Calls :
            (Starts(c) /\ StartedMethod(c) \notin rpc)
                => /\ pc'[c] \in Ended
                   /\ UNCHANGED <<registryVars, trainingSessions, user, handleVars,
                                  trackerVars, awaited, model>>
                   /\ \A d \in Calls \ {c} : pc'[d] = pc[d] /\ call'[d] = call[d]
                   /\ last'.hasId
                          => (last'.sent.frame = "reply" /\ last'.sent.call = c) ]_vars

(* C18: whenever a call whose user operation raised has ended, its handler *)
(* returned the exception as its result and, the frame carrying an id, the *)
(* reply with that result was sent.                                        *)
C18_UserErrorReplied ==
    (last.kind = "return" /\ last.user = "raised")
        => /\ last.result = "exception"
           /\ last.hasId => last.sent = [frame |-> "reply", name |-> "exception",
                                         call |-> last.call]

(* C20: a call that waits for a handle is not left waiting once the        *)
(* instantiation it waits for has ended, by returning or by raising: the   *)
(* future it awaits has a result then, so the call resumes and returns.    *)
(* (Nothing but the instantiate call resolves its future, so a waiter left *)
(* on a pending future at that point waits forever.)                       *)
C20_WaiterResumes ==
    \A c \in Calls :
        (pc[c] = "awaitModel" /\ pc[awaited[c]] \in Ended)
            => modelFuture[awaited[c]] # "pending"

(* C15: the bytes on the socket, and the buffered bytes that follow them,  *)
(* are whole frames one after the other: every byte that is not the first  *)
(* of its frame follows the byte before it of the same frame, and every    *)
(* first byte follows the last byte of a frame or starts the stream.       *)
C15_FramesNeverInterleave ==
    LET bytes == wire \o buffer IN
    \A p \in 1..Len(bytes) :
        IF bytes[p][2] = 1
        THEN p = 1 \/ bytes[p - 1][2] = FrameLen
        ELSE p > 1 /\ bytes[p - 1] = <<bytes[p][1], bytes[p][2] - 1>>

(* C15 witness: sends are in flight together: one task is suspended in    *)
(* drain holding the lock, another waits for the lock, and the socket has  *)
(* taken a frame only in part, with bytes of two frames in the buffer.     *)
C15_Witness ==
    /\ \E m \in Messages : wpc[m] = "awaitDrain" /\ sock_lock = m
    /\ \E m \in Messages : wpc[m] = "awaitLock"
    /\ wire # <<>>
    /\ wire[Len(wire)][2] # FrameLen
    /\ \E p \in 1..Len(buffer) : buffer[p][1] # buffer[1][1]

(* C16: once the connection is lost by a failed send no byte reaches the   *)
(* socket any more, the loop of inner_main ends with the failure, and      *)
(* after that nothing runs.                                                *)
C16_WriteErrorFatal ==
    /\ [][connection = "lost" => wire' = wire]_vars
    /\ [][reader # "failed"]_vars
    /\ (connection = "lost") ~> (reader = "failed")

(* C16 witness: the connection was lost while a task was suspended in      *)
(* drain, its drain raised, and the reader loop has ended in failure.      *)
C16_Witness ==
    /\ connection = "lost"
    /\ reader = "failed"
    /\ \E m \in Messages : wpc[m] = "failed"

(* C17: a segment list encoded as a control frame and decoded by the       *)
(* program's reader comes back as the same segment list.                   *)
C17_ControlFrameRoundTrip ==
    codec = "decoded"
        => (received.status = "decoded" /\ received.segments = toSend)

(* C21: outbound frames reach the socket in the order their sends were     *)
(* requested: when a byte of a frame is on the socket, every byte of every *)
(* frame requested before it is on the socket ahead of that byte.          *)
C21_FramesInRequestOrder ==
    \A p \in 1..Len(wire) :
        \A f1 \in 1..(wire[p][1] - 1) :
            \A i \in 1..FrameLen :
                \E q \in 1..(p - 1) : wire[q] = <<f1, i>>

(* C21 witness: the socket has taken bytes of three frames while a task    *)
(* requested later still waits for the lock behind the task that holds it  *)
(* in drain.                                                               *)
C21_Witness ==
    /\ \E p \in 1..Len(wire) : wire[p][1] = 3
    /\ \E m \in Messages : wpc[m] = "awaitDrain" /\ sock_lock = m
    /\ \E m \in Messages : wpc[m] = "awaitLock"

(* C22: an instantiate call removes no registry entry but its own: a       *)
(* handle whose instantiate call succeeded, for which no dispose was       *)
(* requested, and which followed instantiations that were all disposed     *)
(* before, is registered, whatever becomes of those earlier calls.         *)
C22_RemovesOwnEntryOnly ==
    \A e \in Calls :
        ( /\ modelFuture[e] = "model"
          /\ disposeRequested[e] = "no"
          /\ \A a \in Calls \ {e} :
                 modelFuture[a] # "nofuture" => (a < e /\ disposeRequested[a] # "no") )
            => \E id \in InstantiatedModelIds : instantiatedModels[id] = e

(* C23: in createModelState, instantiateModel, train, evaluate and         *)
(* getModelState the completion flag of the call is false while the user   *)
(* operation runs, and it is true once the handler has returned after the  *)
(* user operation returned or raised.                                      *)
C23_CompletionFlag ==
    /\ \A c \in Calls :
           /\ pc[c] = "awaitUser" => complete[c] = "False"
           /\ pc[c] \in Ended => complete[c] \in {"none", "True"}
    /\ (last.kind = "return" /\ last.user \in {"returned", "raised"})
           => complete[last.call] = "True"

(* C23 witness: createModelState has just ended on its exception path, a   *)
(* call that ended before it has its flag true, and a third call is in its *)
(* user operation.                                                         *)
C23_Witness ==
    /\ last.kind = "return"
    /\ last.method = "callCreateModelState"
    /\ last.user = "raised"
    /\ complete[last.call] = "True"
    /\ \E c \in Calls \ {last.call} : pc[c] \in Ended /\ complete[c] = "True"
    /\ \E c \in Calls : pc[c] = "awaitUser" /\ complete[c] = "False"

(* The sum of a sequence of numbers. *)
RECURSIVE SumSeq(_)
SumSeq(sizes) == IF sizes = <<>> THEN 0 ELSE Head(sizes) + SumSeq(Tail(sizes))

(* The number of bytes the reply announces ahead of blob j of output i. *)
RECURSIVE SizesBefore(_, _, _)
SizesBefore(outputs, i, j) ==
    IF i = 0 THEN 0
    ELSE IF j = 0 THEN SizesBefore(outputs, i - 1,
                                   IF i = 1 THEN 0 ELSE Len(outputs[i - 1].byteSizes))
    ELSE outputs[i].byteSizes[j] + SizesBefore(outputs, i, j - 1)

(* The evaluate result passes every check on its way to the reply. *)
ValidResult(in) ==
    /\ in.res.type = "list"
    /\ \A i \in 1..Len(in.res.value) :
           LET el == in.res.value[i] IN
           /\ el.type = "dict"
           /\ el.name # "bad"
           /\ el.data.type = "list"
           /\ \A j \in 1..Len(el.data.value) :
                  el.data.value[j].type = (IF in.wrapped THEN "tensor" ELSE "bytes")

(* C24: a successful evaluate reply has exactly one attachment; byteSizes  *)
(* gives, output by output and blob by blob, the length of each blob of    *)
(* the evaluate result; each blob stands in the attachment right after the *)
(* bytes announced ahead of it; and the byteSizes add up to the length of  *)
(* the attachment.  A result that fails a check is answered by the error   *)
(* alone, without outputs and without attachment.                          *)
C24_EvaluateReplyConsistent ==
    response # NoResponse =>
        IF ValidResult(awaitedres)
        THEN LET els == awaitedres.res.value
                 outputs == response.result.outputs
             IN
             /\ response.result.error = "none"
             /\ Len(toSend) = 2
             /\ Len(outputs) = Len(els)
             /\ \A i \in 1..Len(els) :
                    /\ Len(outputs[i].byteSizes) = Len(els[i].data.value)
                    /\ \A j \in 1..Len(els[i].data.value) :
                           LET blob == els[i].data.value[j].value
                               at == SizesBefore(outputs, i, j - 1)
                           IN
                           /\ outputs[i].byteSizes[j] = Len(blob)
                           /\ SubSeq(toSend[2], at + 1, at + Len(blob)) = blob
             /\ Len(toSend[2]) =
                    SumSeq([i \in 1..Len(outputs) |-> SumSeq(outputs[i].byteSizes)])
        ELSE /\ response.result.error = "exception"
             /\ response.result.outputs = <<>>
             /\ Len(toSend) = 1

(* C24 witness: a reply to an evaluate through _Model.evaluate with two    *)
(* outputs of two blobs each, of different lengths.                        *)
C24_Witness ==
    /\ awaitedres.wrapped
    /\ response.result.error = "none"
    /\ Len(response.result.outputs) = 2
    /\ \A i \in 1..2 : response.result.outputs[i].byteSizes \in {<<1, 2>>, <<2, 1>>}
    /\ Len(toSend) = 2
    /\ Len(toSend[2]) = 6

====
